---- MODULE Spec2Model ----
(***************************************************************************)
(* The qualification request lifecycle of ProspectLens' agent-ui:          *)
(*   - QualificationForm (src/unnamed/part_000): the two-step form, its    *)
(*     dual submission mode, requirement edits and handleSubmit;           *)
(*   - App (src/agent-ui/src/App.tsx): the held result and loading flag,   *)
(*     which decide whether the form or the ResultsPanel is mounted;       *)
(*   - ResultsPanel (src/agent-ui/src/components/HeroSection.tsx, second   *)
(*     half): the score classifiers and the error override.                *)
(*                                                                         *)
(* Representation.  A string is a sequence of one-character strings, so    *)
(* that String.prototype.trim is computed and not assumed.  A message is a *)
(* sequence of text pieces (a template's literal part and the values it    *)
(* interpolates).  An optional JSON property is <<>> when absent and <<v>>  *)
(* when present.  Scores are numbers with one decimal, held in tenths      *)
(* (7.9 is 79), so the source's thresholds 8, 6 and 4 read 80, 60 and 40.  *)
(***************************************************************************)
EXTENDS Integers, Sequences, FiniteSets, TLC

VARIABLES
    personName,        \* useState('')                       part_000:18
    eventUrl,          \* useState('')                       part_000:19
    useManualDetails,  \* useState(false)                    part_000:20
    eventDetails,      \* useState<EventDetails>({...})      part_000:21-27
    activeTab,         \* useState('person')                 part_000:28
    result,            \* App: useState<QualificationResult | null>(null)
    loading,           \* App: useState(false)
    pc,                \* where the pending handleSubmit is suspended
    request,           \* the arguments of the fetch call that is pending
    events             \* what the latest submit attempt did, in order

formVars == <<personName, eventUrl, useManualDetails, eventDetails, activeTab>>
appVars == <<result, loading>>
vars == <<personName, eventUrl, useManualDetails, eventDetails, activeTab,
          result, loading, pc, request, events>>

----------------------------------------------------------------------------
(* Bounds and input domains *)

\* longest requirements list the Add button is followed to
MaxReqs == 3

SP == " "

\* what the operator may type into each field
PersonNames == {<<>>, <<SP>>, <<"J">>}
EventUrls == {<<>>, <<SP>>, <<"u">>}
EventNames == {<<>>, <<SP>>, <<"n">>}
OtherTexts == {<<>>, <<"x">>}
ReqTexts == {<<>>, <<SP>>, <<"a">>, <<SP, "b">>}

\* HTTP statuses the service answers with
Statuses == {200, 299, 300, 404, 500}

\* scores (in tenths) the service answers with
Scores == {0, 39, 40, 59, 60, 79, 80, 100}

----------------------------------------------------------------------------
(* Strings *)

IsSpace(c) == c = SP

RECURSIVE TrimStart(_)
TrimStart(s) ==
    IF s = <<>> THEN s
    ELSE IF IsSpace(Head(s)) THEN TrimStart(Tail(s)) ELSE s

RECURSIVE TrimEnd(_)
TrimEnd(s) ==
    IF s = <<>> THEN s
    ELSE IF IsSpace(s[Len(s)]) THEN TrimEnd(SubSeq(s, 1, Len(s) - 1)) ELSE s

\* String.prototype.trim
Trim(s) == TrimEnd(TrimStart(s))

\* !s.trim() : the empty string is the only falsy string
NotTrim(s) == Trim(s) = <<>>

----------------------------------------------------------------------------
(* Optional properties and JSON values *)

None == <<>>
Some(v) == <<v>>
Null == [null |-> TRUE]

\* a || b on an optional number
OrZero(o) == IF o = None THEN 0 ELSE o[1]

\* truthiness of an optional string: absent and '' are falsy
Truthy(o) == o # None /\ o[1] # <<>>

----------------------------------------------------------------------------
(* QualificationForm: state and edits *)

InitialEventDetails ==
    [name |-> <<>>, type |-> <<>>, requirements |-> <<(<<>>)>>,
     audience |-> <<>>, format |-> <<>>]

\* the useState initialisers, run each time the component is mounted
FormInitial ==
    /\ personName = <<>>
    /\ eventUrl = <<>>
    /\ useManualDetails = FALSE
    /\ eventDetails = InitialEventDetails
    /\ activeTab = "person"

\* a form that stays rendered while the request is pending
FormMountedWhileLoading == result = Null

\* App renders the form only while there is no result and nothing is loading
FormMounted == result = Null /\ ~loading

\* <TabsContent value=...>: only the active tab's content is rendered
PersonTabShown == FormMounted /\ activeTab = "person"
EventTabShown == FormMounted /\ activeTab = "event"
UrlInputShown == EventTabShown /\ ~useManualDetails
ManualFieldsShown == EventTabShown /\ useManualDetails

\* positions of a list, 0-based as in the source
Indices(xs) == 0 .. (Len(xs) - 1)

\* xs.filter((_, i) => i !== index)
FilterOutIndex(xs, index) ==
    [k \in 1 .. (Len(xs) - (IF index \in Indices(xs) THEN 1 ELSE 0)) |->
        IF k - 1 < index THEN xs[k] ELSE xs[k + 1]]

\* xs.map((req, i) => i === index + 1 ? value : req), off by one
MapAtNextIndex(xs, index, value) ==
    [k \in 1 .. Len(xs) |-> IF k - 1 = index + 1 THEN value ELSE xs[k]]

\* xs.map((req, i) => i === index ? value : req)
MapAtIndex(xs, index, value) ==
    [k \in 1 .. Len(xs) |-> IF k - 1 = index THEN value ELSE xs[k]]

addRequirement(prev) ==
    [prev EXCEPT !.requirements = Append(prev.requirements, <<>>)]

removeRequirement(prev, index) ==
    [prev EXCEPT !.requirements = FilterOutIndex(prev.requirements, index)]

updateRequirement(prev, index, value) ==
    [prev EXCEPT !.requirements = MapAtIndex(prev.requirements, index, value)]

\* a remove button rendered on every row
RemoveAlwaysShown == TRUE

\* the remove button of a row is rendered only while there are several rows
RemoveShown == Len(eventDetails.requirements) > 1

\* disabled={!personName.trim()} on the Next button
NextEnabled == ~NotTrim(personName)

SetPersonName(v) ==
    /\ PersonTabShown
    /\ personName' = v
    /\ UNCHANGED <<eventUrl, useManualDetails, eventDetails, activeTab,
                   result, loading, pc, request, events>>

SetEventUrl(v) ==
    /\ UrlInputShown
    /\ eventUrl' = v
    /\ UNCHANGED <<personName, useManualDetails, eventDetails, activeTab,
                   result, loading, pc, request, events>>

\* a toggle rendered outside the tab contents, in both steps
ToggleInEitherStep ==
    /\ FormMounted
    /\ useManualDetails' = ~useManualDetails
    /\ UNCHANGED <<personName, eventUrl, eventDetails, activeTab,
                   result, loading, pc, request, events>>

\* a toggle that also clears the URL typed for the other mode
ToggleClearsEventUrl ==
    /\ EventTabShown
    /\ useManualDetails' = ~useManualDetails
    /\ eventUrl' = <<>>
    /\ UNCHANGED <<personName, eventDetails, activeTab,
                   result, loading, pc, request, events>>

ToggleManualDetails ==
    /\ EventTabShown
    /\ useManualDetails' = ~useManualDetails
    /\ UNCHANGED <<personName, eventUrl, eventDetails, activeTab,
                   result, loading, pc, request, events>>

SetEventDetails(next) ==
    /\ ManualFieldsShown
    /\ eventDetails' = next
    /\ UNCHANGED <<personName, eventUrl, useManualDetails, activeTab,
                   result, loading, pc, request, events>>

SetEventName(v) == SetEventDetails([eventDetails EXCEPT !.name = v])
SetEventType(v) == SetEventDetails([eventDetails EXCEPT !.type = v])
SetEventAudience(v) == SetEventDetails([eventDetails EXCEPT !.audience = v])
SetEventFormat(v) == SetEventDetails([eventDetails EXCEPT !.format = v])

AddRequirement ==
    /\ Len(eventDetails.requirements) < MaxReqs
    /\ SetEventDetails(addRequirement(eventDetails))

RemoveRequirement(index) ==
    /\ RemoveShown
    /\ SetEventDetails(removeRequirement(eventDetails, index))

UpdateRequirement(index, v) ==
    SetEventDetails(updateRequirement(eventDetails, index, v))

SetActiveTab(t) ==
    /\ activeTab' = t
    /\ UNCHANGED <<personName, eventUrl, useManualDetails, eventDetails,
                   result, loading, pc, request, events>>

\* a click on a tab header: <Tabs onValueChange={setActiveTab}>
TabsTrigger(t) ==
    /\ FormMounted
    /\ SetActiveTab(t)

\* "Next: Event Details"
NextButton ==
    /\ PersonTabShown
    /\ NextEnabled
    /\ SetActiveTab("event")

\* "Back to Person Details"
BackButton ==
    /\ EventTabShown
    /\ SetActiveTab("person")

----------------------------------------------------------------------------
(* handleSubmit: validation and payload *)

\* validity that looks at the URL in both modes
isFormValidUrlOnly ==
    /\ Trim(personName) # <<>>
    /\ Trim(eventUrl) # <<>>

\* personName.trim() !== '' && (useManualDetails ? name.trim() !== '' : eventUrl.trim() !== '')
isFormValid ==
    /\ Trim(personName) # <<>>
    /\ IF useManualDetails THEN Trim(eventDetails.name) # <<>>
                           ELSE Trim(eventUrl) # <<>>

\* handleSubmit without its last early return
SubmitRefusedWithoutUrlCheck ==
    \/ NotTrim(personName)
    \/ useManualDetails /\ NotTrim(eventDetails.name)

\* the three early returns of handleSubmit
SubmitRefused ==
    \/ NotTrim(personName)
    \/ useManualDetails /\ NotTrim(eventDetails.name)
    \/ ~useManualDetails /\ NotTrim(eventUrl)

\* requirements.filter(req => req !== ''), the trim forgotten
RECURSIVE FilterNonEmpty(_)
FilterNonEmpty(reqs) ==
    IF reqs = <<>> THEN <<>>
    ELSE IF Head(reqs) # <<>>
         THEN <<Head(reqs)>> \o FilterNonEmpty(Tail(reqs))
         ELSE FilterNonEmpty(Tail(reqs))

\* requirements.filter(req => req.trim() !== '')
RECURSIVE FilterNonBlank(_)
FilterNonBlank(reqs) ==
    IF reqs = <<>> THEN <<>>
    ELSE IF Trim(Head(reqs)) # <<>>
         THEN <<Head(reqs)>> \o FilterNonBlank(Tail(reqs))
         ELSE FilterNonBlank(Tail(reqs))

ManualUrl == "http://localhost:8000/qualify"
FromUrlUrl == "http://localhost:8000/qualify-from-url"

\* JSON.stringify({person_name, event_details: {...eventDetails, requirements: filtered}})
ManualBody(name, details) ==
    [person_name |-> name,
     event_details |-> [details EXCEPT !.requirements = FilterNonBlank(details.requirements)]]

\* JSON.stringify({person_name, event_url})
FromUrlBody(name, url) ==
    [person_name |-> name, event_url |-> url]

\* the two branches taken for the wrong mode
FetchCallForOtherMode(manual, name, url, details) ==
    IF ~manual
    THEN [url |-> ManualUrl, method |-> "POST", body |-> ManualBody(name, details)]
    ELSE [url |-> FromUrlUrl, method |-> "POST", body |-> FromUrlBody(name, url)]

\* the fetch call handleSubmit makes for the mode that is active
FetchCall(manual, name, url, details) ==
    IF manual
    THEN [url |-> ManualUrl, method |-> "POST", body |-> ManualBody(name, details)]
    ELSE [url |-> FromUrlUrl, method |-> "POST", body |-> FromUrlBody(name, url)]

NoRequest == [none |-> TRUE]

----------------------------------------------------------------------------
(* handleSubmit: outcomes *)

\* Response.ok
ResponseOk(status) == status >= 200 /\ status <= 299

\* a thrown value: an Error carrying a message, or something that is no Error
ErrorOf(message) == [isError |-> TRUE, message |-> message]
NotAnError == [isError |-> FALSE]

\* new Error('HTTP error!'), the status left out
HttpErrorWithoutStatus(status) == ErrorOf(<<"HTTP error!">>)

\* new Error(`HTTP error! status: ${response.status}`)
HttpError(status) == ErrorOf(<<"HTTP error! status: ", ToString(status)>>)

\* 'Unknown error' for every thrown value
ErrorTextAlwaysUnknown(error) == <<"Unknown error">>

\* error instanceof Error ? error.message : 'Unknown error'
ErrorText(error) == IF error.isError THEN error.message ELSE <<"Unknown error">>

\* new Date().toISOString()
NowIso == <<"now">>

\* the object literal handed to onResult in the catch block
SyntheticResult(name, error) ==
    [person_name |-> Some(name),
     qualification_score |-> Some(0),
     qualification_reasoning |-> Some(<<"Error occurred: ">> \o ErrorText(error)),
     searches_performed |-> Some(0),
     information_sources |-> Some(<<>>),
     timestamp |-> Some(NowIso),
     error |-> Some(ErrorText(error))]

\* what the service may answer with a success status
OneSource == [query |-> <<"q">>, source |-> <<"s">>, found_existing |-> TRUE]

ServiceResult(score, err) ==
    [person_name |-> Some(<<"J">>),
     qualification_score |-> Some(score),
     qualification_reasoning |-> Some(<<"r">>),
     searches_performed |-> Some(1),
     information_sources |-> Some(<<OneSource>>),
     timestamp |-> Some(<<"t">>),
     error |-> err]

EmptyObject ==
    [person_name |-> None, qualification_score |-> None,
     qualification_reasoning |-> None, searches_performed |-> None,
     information_sources |-> None, timestamp |-> None, error |-> None]

ServiceErrors == {None, Some(<<>>), Some(<<"agent failed">>)}

Bodies ==
    {ServiceResult(s, e) : s \in Scores, e \in ServiceErrors} \cup {EmptyObject, Null}

\* what fetch may reject with, and what response.json() may reject with
FetchFailures == {ErrorOf(<<"fetch failed">>), NotAnError}
JsonFailures == {ErrorOf(<<"Unexpected end of JSON input">>), NotAnError}

\* the callbacks and the network call, as they are recorded in the log
EvSubmit == "submit"
EvLoadingTrue == "onLoadingChange(true)"
EvFetch == "fetch"
EvResult == "onResult"
EvLoadingFalse == "onLoadingChange(false)"

\* a form whose person name outlives the instance (state kept above the form)
MountKeepsPersonName ==
    /\ personName' = personName
    /\ eventUrl' = <<>>
    /\ useManualDetails' = FALSE
    /\ eventDetails' = InitialEventDetails
    /\ activeTab' = "person"

\* the next QualificationForm instance starts from the useState initialisers
MountFresh ==
    /\ personName' = <<>>
    /\ eventUrl' = <<>>
    /\ useManualDetails' = FALSE
    /\ eventDetails' = InitialEventDetails
    /\ activeTab' = "person"

\* a submit event reaches the form: the submit button when it is enabled, or
\* Enter in the person tab, whose content holds one input and no submit button
SubmitAvailable == FormMounted /\ (activeTab = "person" \/ isFormValid)

\* handleSubmit up to its first await
HandleSubmit ==
    /\ SubmitAvailable
    /\ IF SubmitRefused
       THEN /\ events' = <<EvSubmit>>
            /\ UNCHANGED <<personName, eventUrl, useManualDetails, eventDetails,
                           activeTab, result, loading, pc, request>>
       ELSE /\ loading' = TRUE
            /\ request' = FetchCall(useManualDetails, personName, eventUrl, eventDetails)
            /\ events' = <<EvSubmit, EvLoadingTrue, EvFetch>>
            /\ pc' = "fetching"
            /\ UNCHANGED <<personName, eventUrl, useManualDetails, eventDetails,
                           activeTab, result>>

\* the finally block run before onResult(r)
SettleThenEmit(r) ==
    /\ result' = r
    /\ loading' = FALSE
    /\ events' = events \o <<EvLoadingFalse, EvResult>>
    /\ pc' = "idle"
    /\ MountFresh
    /\ request' = NoRequest

\* onResult(r), then the finally block.  The instance that submitted was
\* unmounted when loading became true; its closure ends here.
EmitAndSettle(r) ==
    /\ result' = r
    /\ loading' = FALSE
    /\ events' = events \o <<EvResult, EvLoadingFalse>>
    /\ pc' = "idle"
    /\ MountFresh
    /\ request' = NoRequest

\* a catch block that only logs, then the finally block
CatchWithoutResult(error) ==
    /\ loading' = FALSE
    /\ events' = events \o <<EvLoadingFalse>>
    /\ pc' = "idle"
    /\ MountFresh
    /\ request' = NoRequest
    /\ UNCHANGED result

\* the catch block, then the finally block
CatchAndSettle(error) == EmitAndSettle(SyntheticResult(personName, error))

\* await fetch(...) resolves with a response
FetchResolves(status) ==
    /\ pc = "fetching"
    /\ IF ~ResponseOk(status)
       THEN CatchAndSettle(HttpError(status))
       ELSE /\ pc' = "parsing"
            /\ UNCHANGED <<personName, eventUrl, useManualDetails, eventDetails,
                           activeTab, result, loading, request, events>>

\* a rejection that leaves handleSubmit without its catch and finally blocks
FetchRejectsUncaught(error) ==
    /\ pc = "fetching"
    /\ pc' = "idle"
    /\ request' = NoRequest
    /\ UNCHANGED <<personName, eventUrl, useManualDetails, eventDetails,
                   activeTab, result, loading, events>>

\* await fetch(...) rejects
FetchRejects(error) ==
    /\ pc = "fetching"
    /\ CatchAndSettle(error)

\* await response.json() resolves with the parsed body
JsonResolves(body) ==
    /\ pc = "parsing"
    /\ EmitAndSettle(body)

\* await response.json() rejects
JsonRejects(error) ==
    /\ pc = "parsing"
    /\ CatchAndSettle(error)

----------------------------------------------------------------------------
(* App and ResultsPanel *)

\* a "New Analysis" button rendered in the loading view as well
ResetShownWhileLoading == loading \/ result # Null

\* "New Analysis": rendered once a result is held and nothing is loading
ResetShown == ~loading /\ result # Null

onReset ==
    /\ ResetShown
    /\ result' = Null
    /\ loading' = FALSE
    /\ MountFresh
    /\ UNCHANGED <<pc, request, events>>

\* the three classifiers; score >= 8, >= 6, >= 4 in tenths
getScoreColor(score) ==
    IF score >= 80 THEN "text-green-600"
    ELSE IF score >= 60 THEN "text-blue-600"
    ELSE IF score >= 40 THEN "text-yellow-600"
    ELSE "text-red-600"

getScoreBgColor(score) ==
    IF score >= 80 THEN "bg-green-500/20"
    ELSE IF score >= 60 THEN "bg-blue-500/20"
    ELSE IF score >= 40 THEN "bg-yellow-500/20"
    ELSE "bg-red-500/20"

\* the thresholds compared with > instead of >=
getScoreLabelStrict(score) ==
    IF score > 80 THEN "Highly Qualified"
    ELSE IF score > 60 THEN "Well Qualified"
    ELSE IF score > 40 THEN "Minimally Qualified"
    ELSE "Not Qualified"

getScoreLabel(score) ==
    IF score >= 80 THEN "Highly Qualified"
    ELSE IF score >= 60 THEN "Well Qualified"
    ELSE IF score >= 40 THEN "Minimally Qualified"
    ELSE "Not Qualified"

\* const score = result.qualification_score || 0
PanelScore(r) == OrZero(r.qualification_score)

\* const hasError = result.error, used as a condition
hasError(r) == Truthy(r.error)

\* the heading under the score circle
PanelHeading(r) == IF hasError(r) THEN "Analysis Failed" ELSE getScoreLabel(PanelScore(r))
PanelHeadingColor(r) == getScoreColor(PanelScore(r))
PanelCircleColor(r) == getScoreBgColor(PanelScore(r))

\* ResultsPanel shows a result
PanelShown == ~loading /\ result # Null

----------------------------------------------------------------------------
(* The system *)

Init ==
    /\ FormInitial
    /\ result = Null
    /\ loading = FALSE
    /\ pc = "idle"
    /\ request = NoRequest
    /\ events = <<>>

Tabs == {"person", "event"}

Next ==
    \/ \E v \in PersonNames : SetPersonName(v)
    \/ \E v \in EventUrls : SetEventUrl(v)
    \/ ToggleManualDetails
    \/ \E v \in EventNames : SetEventName(v)
    \/ \E v \in OtherTexts : SetEventType(v)
    \/ \E v \in OtherTexts : SetEventAudience(v)
    \/ \E v \in OtherTexts : SetEventFormat(v)
    \/ AddRequirement
    \/ \E i \in Indices(eventDetails.requirements) : RemoveRequirement(i)
    \/ \E i \in Indices(eventDetails.requirements), v \in ReqTexts : UpdateRequirement(i, v)
    \/ \E t \in Tabs : TabsTrigger(t)
    \/ NextButton
    \/ BackButton
    \/ HandleSubmit
    \/ \E s \in Statuses : FetchResolves(s)
    \/ \E e \in FetchFailures : FetchRejects(e)
    \/ \E b \in Bodies : JsonResolves(b)
    \/ \E e \in JsonFailures : JsonRejects(e)
    \/ onReset

\* the pending promise is settled by the transport: fetch resolves or rejects,
\* and response.json() resolves or rejects
RequestOutcome ==
    \/ \E s \in Statuses : FetchResolves(s)
    \/ \E e \in FetchFailures : FetchRejects(e)
    \/ \E b \in Bodies : JsonResolves(b)
    \/ \E e \in JsonFailures : JsonRejects(e)

Spec == Init /\ [][Next]_vars

\* the same system, with every pending request eventually getting its outcome
FairSpec == Init /\ [][Next]_vars /\ WF_vars(RequestOutcome)

----------------------------------------------------------------------------
(* Vocabulary of the properties *)

\* a string with nothing but white space in it
Blank(s) == \A i \in DOMAIN s : s[i] = SP
NotBlank(s) == ~Blank(s)

\* the combined validity predicate fails
FormInvalid ==
    \/ Blank(personName)
    \/ ~useManualDetails /\ Blank(eventUrl)
    \/ useManualDetails /\ Blank(eventDetails.name)

Count(log, ev) == Cardinality({i \in DOMAIN log : log[i] = ev})

IsPrefix(a, b) == Len(a) <= Len(b) /\ a = SubSeq(b, 1, Len(a))

\* a step in which handleSubmit ran and did something
SubmitStep == pc = "idle" /\ events' # events

\* a step in which handleSubmit accepted the submission
AcceptStep == pc = "idle" /\ pc' = "fetching"

\* a submission has run to its end
Completed == pc = "idle" /\ EvFetch \in {events[i] : i \in DOMAIN events}

----------------------------------------------------------------------------
(* C1: a submit attempt on a form whose validity predicate is false makes  *)
(* no network call, gives no in-progress or settled signal, emits no       *)
(* result and leaves all form state as it was.                             *)
RefusedSubmitIsNoOp ==
    [][SubmitStep /\ FormInvalid =>
          /\ events' = <<EvSubmit>>
          /\ request' = request
          /\ loading' = loading
          /\ result' = result
          /\ pc' = pc
          /\ formVars' = formVars]_vars

RefusedSubmitSeen ==
    /\ events = <<EvSubmit>>
    /\ FormInvalid
    /\ NotBlank(personName)
    /\ request = NoRequest
    /\ ~loading

(* C2: every accepted submission emits exactly one result through          *)
(* onResult, whatever the outcome: never none and never two.               *)
ExactlyOneResult ==
    /\ Count(events, EvResult) <= 1
    /\ Completed => Count(events, EvResult) = 1

ParseFailureEmittedOnce ==
    /\ Completed
    /\ Count(events, EvResult) = 1
    /\ result # Null
    /\ result.error = Some(<<"Unexpected end of JSON input">>)

(* C3: for every accepted submission the order is onLoadingChange(true),   *)
(* the network call, the result, onLoadingChange(false); each signal is    *)
(* given exactly once, on success and on every failure path.               *)
AcceptedTrace == <<EvSubmit, EvLoadingTrue, EvFetch, EvResult, EvLoadingFalse>>

SignalsInOrder ==
    /\ IsPrefix(events, AcceptedTrace)
    /\ pc # "idle" => events = SubSeq(AcceptedTrace, 1, 3) /\ loading
    /\ Completed => events = AcceptedTrace /\ ~loading
    /\ loading => Count(events, EvLoadingTrue) = 1 /\ Count(events, EvLoadingFalse) = 0

SuccessSettledInOrder ==
    /\ Completed
    /\ events = AcceptedTrace
    /\ result # Null
    /\ result.error = None
    /\ ~loading

(* C4: an accepted submission makes exactly one network call; the mode     *)
(* active at submit time picks endpoint and body: URL mode posts           *)
(* {person_name, event_url} to /qualify-from-url, manual mode posts        *)
(* {person_name, event_details} to /qualify, with the form's values and    *)
(* without the other mode's data.                                          *)
OneCallForActiveMode ==
    /\ [][AcceptStep =>
            /\ Count(events', EvFetch) = 1
            /\ request'.method = "POST"
            /\ request'.body.person_name = personName
            /\ IF useManualDetails
               THEN /\ request'.url = "http://localhost:8000/qualify"
                    /\ DOMAIN request'.body = {"person_name", "event_details"}
                    /\ request'.body.event_details.name = eventDetails.name
               ELSE /\ request'.url = "http://localhost:8000/qualify-from-url"
                    /\ DOMAIN request'.body = {"person_name", "event_url"}
                    /\ request'.body.event_url = eventUrl]_vars
    /\ [](Count(events, EvFetch) <= 1)

ManualCallWithUrlTyped ==
    /\ pc = "fetching"
    /\ useManualDetails
    /\ eventUrl = <<"u">>
    /\ request.url = ManualUrl
    /\ Count(events, EvFetch) = 1

(* C5: in manual mode the payload's requirements are the entries of the    *)
(* editable list that are not blank after trimming, in their order         *)
(* (possibly none); submitting does not change the editable list, and the  *)
(* other event fields are sent as they are.                                *)
RequirementsFilteredInPayload ==
    [][AcceptStep /\ useManualDetails =>
          /\ request'.body.event_details.requirements =
                SelectSeq(eventDetails.requirements, NotBlank)
          /\ request'.body.event_details.name = eventDetails.name
          /\ request'.body.event_details.type = eventDetails.type
          /\ request'.body.event_details.audience = eventDetails.audience
          /\ request'.body.event_details.format = eventDetails.format
          /\ DOMAIN request'.body.event_details = DOMAIN eventDetails
          /\ eventDetails' = eventDetails]_vars

BlankRequirementDropped ==
    /\ pc = "fetching"
    /\ useManualDetails
    /\ eventDetails.requirements = <<(<<SP>>), <<SP, "b">>, <<"a">>>>
    /\ request.body.event_details.requirements = <<(<<SP, "b">>), <<"a">>>>
    /\ eventDetails.type = <<"x">>

(* C6: a response with a non-success status s gives a locally built        *)
(* result: its error is a message that contains s, its score is 0, its     *)
(* searches_performed is 0 and its information_sources is empty.           *)
Contains(message, piece) == \E i \in DOMAIN message : message[i] = piece

HttpFailureSynthesized ==
    [][\A s \in Statuses :
          FetchResolves(s) /\ (s < 200 \/ s > 299) =>
              /\ result' # Null
              /\ result'.error # None
              /\ Contains(result'.error[1], ToString(s))
              /\ result'.qualification_score = Some(0)
              /\ result'.searches_performed = Some(0)
              /\ result'.information_sources = Some(<<>>)
              /\ Count(events', EvResult) = 1]_vars

Http500Shown ==
    /\ Completed
    /\ result # Null
    /\ result.error # None
    /\ Contains(result.error[1], "500")
    /\ result.qualification_score = Some(0)
    /\ result.information_sources = Some(<<>>)

(* C7: when the network call rejects or the body cannot be parsed, the     *)
(* emitted result is the locally built failure result (score 0, searches   *)
(* 0, no sources) whose error is the failure's message, or 'Unknown error' *)
(* when the thrown value carries no message; handleSubmit ends normally.   *)
MessageOrFallback(thrown) ==
    IF "message" \in DOMAIN thrown THEN thrown.message ELSE <<"Unknown error">>

RejectionSynthesized ==
    [][\A e \in FetchFailures \cup JsonFailures :
          FetchRejects(e) \/ JsonRejects(e) =>
              /\ result' # Null
              /\ result'.error = Some(MessageOrFallback(e))
              /\ result'.qualification_score = Some(0)
              /\ result'.searches_performed = Some(0)
              /\ result'.information_sources = Some(<<>>)
              /\ pc' = "idle"
              /\ ~loading'
              /\ events' = AcceptedTrace]_vars

FallbackMessageShown ==
    /\ Completed
    /\ result # Null
    /\ result.error = Some(<<"Unknown error">>)
    /\ result.qualification_score = Some(0)

(* C8: for every completed submission the value handed to the              *)
(* presentation layer has person_name, qualification_score,                *)
(* qualification_reasoning, searches_performed, information_sources and    *)
(* timestamp populated, whether it was a response body or built locally.   *)
RequiredFields ==
    {"person_name", "qualification_score", "qualification_reasoning",
     "searches_performed", "information_sources", "timestamp"}

WellFormed(r) == r # Null /\ \A f \in RequiredFields : r[f] # None

EverySettledResultWellFormed ==
    Completed /\ PanelShown => WellFormed(result)

(* C9: score >= 8 is HighlyQualified, 6 <= score < 8 WellQualified,        *)
(* 4 <= score < 6 MinimallyQualified, score < 4 NotQualified; 8, 6 and 4   *)
(* fall in the higher band; label, text colour and background colour       *)
(* agree on the band for every score.                                      *)
Band(score) ==
    CASE score >= 80 -> "HighlyQualified"
      [] score >= 60 /\ score < 80 -> "WellQualified"
      [] score >= 40 /\ score < 60 -> "MinimallyQualified"
      [] score < 40 -> "NotQualified"

BandLabel ==
    [HighlyQualified |-> "Highly Qualified", WellQualified |-> "Well Qualified",
     MinimallyQualified |-> "Minimally Qualified", NotQualified |-> "Not Qualified"]
BandText ==
    [HighlyQualified |-> "text-green-600", WellQualified |-> "text-blue-600",
     MinimallyQualified |-> "text-yellow-600", NotQualified |-> "text-red-600"]
BandBackground ==
    [HighlyQualified |-> "bg-green-500/20", WellQualified |-> "bg-blue-500/20",
     MinimallyQualified |-> "bg-yellow-500/20", NotQualified |-> "bg-red-500/20"]

ClassifiersAgreeOnBand ==
    PanelShown =>
        LET band == Band(PanelScore(result)) IN
        /\ getScoreLabel(PanelScore(result)) = BandLabel[band]
        /\ PanelHeadingColor(result) = BandText[band]
        /\ PanelCircleColor(result) = BandBackground[band]
        /\ ~hasError(result) => PanelHeading(result) = BandLabel[band]

BoundaryScoreShown ==
    /\ PanelShown
    /\ ~hasError(result)
    /\ result.qualification_score = Some(60)
    /\ PanelHeading(result) = "Well Qualified"
    /\ PanelHeadingColor(result) = "text-blue-600"

(* C10: every result whose error field is present, passed through from the *)
(* service or built locally, is shown as a failure ('Analysis Failed') and *)
(* never as one of the four score bands, whatever its score.               *)
ErrorPresentShownAsFailure ==
    PanelShown /\ result.error # None => PanelHeading(result) = "Analysis Failed"

(* C11: the form moves from PersonStep to EventStep only when the person   *)
(* name is not blank after trimming; while it is blank, the Next button    *)
(* and the step tab header leave the step unchanged, so EventStep is never *)
(* reached with an invalid person.                                         *)
EventStepNeedsValidPerson ==
    [][FormMounted /\ activeTab = "person" /\ activeTab' = "event" =>
          NotBlank(personName)]_vars

(* C12: toggling the submission mode changes only the active-mode tag:     *)
(* eventUrl, every field of eventDetails (the requirements list included), *)
(* the person name and the current step stay as they were.                 *)
ToggleStep ==
    FormMounted /\ FormMounted' /\ pc = "idle" /\ useManualDetails' # useManualDetails

ToggleChangesOnlyMode ==
    [][ToggleStep =>
          /\ eventUrl' = eventUrl
          /\ eventDetails' = eventDetails
          /\ personName' = personName
          /\ activeTab' = activeTab
          /\ result' = result
          /\ loading' = loading]_vars

ToggledBackWithBothKept ==
    /\ FormMounted
    /\ ~useManualDetails
    /\ eventUrl = <<"u">>
    /\ eventDetails.name = <<"n">>
    /\ eventDetails.format = <<"x">>
    /\ Len(eventDetails.requirements) = 2

(* C13: in every reachable form state the editable requirements list has   *)
(* at least one entry: it starts with one blank entry, add appends one,    *)
(* and remove is offered only while there are several entries.             *)
RequirementsNeverEmpty ==
    /\ Len(eventDetails.requirements) >= 1
    /\ ENABLED (\E i \in Indices(eventDetails.requirements) : RemoveRequirement(i))
          => Len(eventDetails.requirements) > 1

LastRequirementCannotBeRemoved ==
    /\ ManualFieldsShown
    /\ eventDetails.requirements = <<(<<"a">>)>>
    /\ ~ENABLED (\E i \in Indices(eventDetails.requirements) : RemoveRequirement(i))

(* C14: the submit action is enabled exactly when isPersonValid(person)    *)
(* and ((mode = Url and isUrlModeValid) or (mode = Manual and              *)
(* isManualModeValid)), in every reachable form state, and the guard       *)
(* inside handleSubmit accepts a submission in exactly the same states.    *)
EnablementFormula ==
    /\ NotBlank(personName)
    /\ \/ ~useManualDetails /\ NotBlank(eventUrl)
       \/ useManualDetails /\ NotBlank(eventDetails.name)

SubmitEnabledIffValid ==
    /\ isFormValid <=> EnablementFormula
    /\ ~SubmitRefused <=> EnablementFormula

ValidInManualModeWithoutUrl ==
    /\ EventTabShown
    /\ useManualDetails
    /\ Blank(eventUrl)
    /\ isFormValid
    /\ ~SubmitRefused

(* C15: at most one submission is in flight: between the in-progress       *)
(* signal and the settled signal no second submission can start and no     *)
(* second network call is made, whatever the user does meanwhile.          *)
InFlight == pc # "idle"

AtMostOneInFlight ==
    /\ InFlight => loading /\ ~FormMounted /\ ~ENABLED HandleSubmit
    /\ InFlight => Count(events, EvFetch) = 1 /\ request # NoRequest
    /\ loading => InFlight

SecondSubmitImpossible ==
    /\ pc = "fetching"
    /\ loading
    /\ isFormValid
    /\ activeTab = "event"
    /\ ~ENABLED HandleSubmit

(* C16: while a submission is in progress no user action ends the          *)
(* in-progress state (no cancel, no reset, no local timeout): loading      *)
(* turns false only in the settle step that follows the request's outcome. *)
OnlySettleEndsLoading ==
    [][loading /\ ~loading' =>
          /\ InFlight
          /\ pc' = "idle"
          /\ Len(events') = Len(events) + 2
          /\ events'[Len(events') - 1] = EvResult
          /\ events'[Len(events')] = EvLoadingFalse]_vars

NoUserActionWhileLoading ==
    /\ loading
    /\ pc = "parsing"
    /\ ~ENABLED onReset
    /\ ~ENABLED (\E t \in Tabs : TabsTrigger(t))
    /\ ~ENABLED HandleSubmit

(* C17: every accepted submission whose network call eventually resolves   *)
(* or rejects eventually settles: a result is emitted and the in-progress  *)
(* flag is false again, on the success path and on every failure path.     *)
Settled == pc = "idle" /\ ~loading /\ events = AcceptedTrace

AcceptedEventuallySettles == InFlight ~> Settled

RejectedFetchSettled ==
    /\ Settled
    /\ result # Null
    /\ result.error = Some(<<"fetch failed">>)
    /\ result.person_name = Some(<<"J">>)

(* C18: requirement edits are positional: update(i, v) on a list of length *)
(* n gives a list of length n equal to the old one except that position i  *)
(* holds v; remove(i) gives the old list without position i, the rest in   *)
(* their order; both leave the person name, eventUrl, mode, step and the   *)
(* other event fields unchanged.                                           *)
RestOfFormUnchanged ==
    /\ personName' = personName
    /\ eventUrl' = eventUrl
    /\ useManualDetails' = useManualDetails
    /\ activeTab' = activeTab
    /\ eventDetails'.name = eventDetails.name
    /\ eventDetails'.type = eventDetails.type
    /\ eventDetails'.audience = eventDetails.audience
    /\ eventDetails'.format = eventDetails.format

RequirementEditsPositional ==
    [][LET old == eventDetails.requirements
           new == eventDetails'.requirements IN
       /\ \A i \in Indices(old) : \A v \in ReqTexts :
             UpdateRequirement(i, v) =>
                /\ Len(new) = Len(old)
                /\ new[i + 1] = v
                /\ \A k \in 1 .. Len(old) : k # i + 1 => new[k] = old[k]
                /\ RestOfFormUnchanged
       /\ \A i \in Indices(old) :
             RemoveRequirement(i) =>
                /\ new = SubSeq(old, 1, i) \o SubSeq(old, i + 2, Len(old))
                /\ RestOfFormUnchanged]_vars

MiddleRequirementEdited ==
    /\ ManualFieldsShown
    /\ eventDetails.requirements = <<(<<"a">>), <<SP, "b">>, <<>>>>
    /\ eventDetails.name = <<"n">>

(* C19: the mode toggle is orthogonal to the step: it is enabled in        *)
(* PersonStep as well as in EventStep, and toggling never changes the      *)
(* current step.                                                           *)
ToggleEnabledInEitherStep ==
    FormMounted => ENABLED ToggleManualDetails

(* C19, amended: the mode toggle is offered in EventStep only (it is not   *)
(* rendered in PersonStep); toggling never changes the current step, and   *)
(* changing the step never changes the mode.                               *)
ToggleOnlyInEventStep ==
    /\ [](ENABLED ToggleManualDetails <=> (FormMounted /\ activeTab = "event"))
    /\ [][ToggleStep => activeTab' = activeTab /\ activeTab = "event"]_vars
    /\ [][FormMounted /\ FormMounted' /\ pc = "idle" /\ activeTab' # activeTab =>
             useManualDetails' = useManualDetails]_vars

ManualModeKeptInPersonStep ==
    /\ PersonTabShown
    /\ useManualDetails
    /\ ~ENABLED ToggleManualDetails

(* C20: reset returns the whole system to its initial state: the held      *)
(* result is discarded, the in-progress flag is false, and the form shown  *)
(* afterwards is at PersonStep in URL mode with an empty person name, an   *)
(* empty eventUrl, empty event fields and a single blank requirement.      *)
ResetStep == ~loading /\ result # Null /\ result' = Null

ResetRestoresInitialState ==
    [][ResetStep =>
          /\ ~loading'
          /\ pc' = "idle"
          /\ request' = NoRequest
          /\ personName' = <<>>
          /\ eventUrl' = <<>>
          /\ useManualDetails' = FALSE
          /\ activeTab' = "person"
          /\ eventDetails' = [name |-> <<>>, type |-> <<>>, requirements |-> <<(<<>>)>>,
                              audience |-> <<>>, format |-> <<>>]
          /\ FormMounted']_vars

FreshFormAfterSubmission ==
    /\ FormMounted
    /\ FormInitial
    /\ events = AcceptedTrace
    /\ pc = "idle"
    /\ ~ENABLED onReset

====
